---- MODULE Spec2Model ----
(***************************************************************************)
(* The logging pipeline configured in src/eslint.config.ts (the README's   *)
(* logger listing, French listing lines 67-154, English listing lines      *)
(* 245-331) and driven by src/src/server.ts and src/unnamed/part_000/001.  *)
(*                                                                         *)
(* The listing is a winston configuration: createLogger with one Console   *)
(* transport, four DailyRotateFile transports and two File handlers.  What *)
(* the configuration means is what winston does with it:                   *)
(*   - levels are winston's default (npm) levels, a smaller number being   *)
(*     more severe;                                                        *)
(*   - a transport logs an info iff                                        *)
(*       levels[transport.level || logger.level] >= levels[info.level],    *)
(*     so a transport that sets `level` never consults the logger's level; *)
(*   - an info flagged exception / rejection is skipped by the ordinary    *)
(*     transports and handed, without any level test, to the transports of *)
(*     exceptionHandlers / rejectionHandlers;                              *)
(*   - a file transport writes through a stream: the call returns once the *)
(*     record is queued, the bytes land later, in queue order;             *)
(*   - DailyRotateFile opens a file at construction, and before queueing a *)
(*     record opens a new file when the date of the pattern has changed or *)
(*     the size written so far is above maxSize; opening a file removes    *)
(*     the files of the same transport older than maxFiles days;           *)
(*   - the logger's format is applied to every info and sets its text; a   *)
(*     transport with a format of its own applies it to a copy of the      *)
(*     result, a transport without one writes the logger's text.           *)
(***************************************************************************)
EXTENDS Integers, Sequences, FiniteSets, TLC

VARIABLES
    env,        \* NODE_ENV as resolved at start-up
    today,      \* the calendar day, counted from the day the logger was built
    emitted,    \* every info handed to the logger, in order
    console,    \* the infos printed by the Console transport, in order
    files,      \* per file transport, the artifacts it has opened, in order
    rendered    \* per transport, the text of each info it took, in order

vars == <<env, today, emitted, console, files, rendered>>

----------------------------------------------------------------------------
(* Bounds of the model.                                                    *)

\* producer calls and faults explored by Spec
MaxEvents == 3
\* producer calls explored by SpecScenario
MaxScenarioCalls == 4
\* producer calls explored by SpecRotation
MaxRotEvents == 3
\* days explored by SpecRotation
MaxRotDay == 1
\* producer calls explored by SpecRetention
MaxRetEvents == 1
\* days explored by SpecRetention beyond the longest retention window
DaysPastWindow == 2

----------------------------------------------------------------------------
(* Configuration.                                                          *)

Environments == {"production", "development"}

\* winston's default levels (no `levels` option is given to createLogger)
levels ==
    [error |-> 0, warn |-> 1, info |-> 2, http |-> 3,
     verbose |-> 4, debug |-> 5, silly |-> 6]

\* the level methods the repository calls
ProducerLevels == {"error", "warn", "info", "http", "verbose", "debug"}

\* const logLevel = envs.NODE_ENV === 'production' ? 'info' : 'debug'
\* (line 87; the listing of line 253 has 'warn' for 'info')
logLevel == IF env = "production" THEN "info" ELSE "debug"

\* the four DailyRotateFile transports, in the order of `transports`
RotatingSinks == {"application", "errors", "warns", "debugs"}
\* the File transports of exceptionHandlers and rejectionHandlers
Handlers == {"exceptions", "rejections"}
FileSinks == RotatingSinks \cup Handlers
OrdinarySinks == {"console"} \cup RotatingSinks

NoLevel == "none"

\* TransportLevel with the levels of the warns and errors transports exchanged
TransportLevelExchanged(s) ==
    CASE s = "console" -> (IF env = "production" THEN "info" ELSE "debug")
      [] s = "application" -> "info"
      [] s = "warns" -> "error"
      [] s = "debugs" -> "debug"
      [] s = "errors" -> "warn"
      [] OTHER -> NoLevel

\* TransportLevel with the errors transport built at level warn
TransportLevelErrorsAtWarn(s) ==
    CASE s = "console" -> (IF env = "production" THEN "info" ELSE "debug")
      [] s = "application" -> "info"
      [] s = "warns" -> "warn"
      [] s = "debugs" -> "debug"
      [] s = "errors" -> "warn"
      [] OTHER -> NoLevel

\* the `level` option each transport is built with
TransportLevel(s) ==
    CASE s = "console" -> (IF env = "production" THEN "info" ELSE "debug")
      [] s = "application" -> "info"
      [] s = "warns" -> "warn"
      [] s = "debugs" -> "debug"
      [] s = "errors" -> "error"
      [] OTHER -> NoLevel

\* maxFiles: `${maxFiles}d` of each createTransport call
MaxFilesApplication == 14
MaxFilesWarns == 21
MaxFilesDebugs == 21
MaxFilesErrors == 30

\* MaxFiles with the window of the application transport used for all four
MaxFilesShared(s) == MaxFilesApplication

MaxFiles(s) ==
    CASE s = "application" -> MaxFilesApplication
      [] s = "warns" -> MaxFilesWarns
      [] s = "debugs" -> MaxFilesDebugs
      [] s = "errors" -> MaxFilesErrors

\* maxSize: '30m', counted in MiB
MaxSize == 30

\* record sizes explored, in MiB: small, more than half of maxSize, above maxSize
RecordSizes == {1, 16, 31}

----------------------------------------------------------------------------
(* Transports.                                                             *)

\* winston-transport: this.level || this.parent.level
EffectiveLevel(s) ==
    IF TransportLevel(s) = NoLevel THEN logLevel ELSE TransportLevel(s)

\* LevelAdmits with the comparison made strict
LevelAdmitsStrict(sinkLevel, infoLevel) == levels[sinkLevel] > levels[infoLevel]

\* winston-transport: levels[level] >= levels[info[LEVEL]]
LevelAdmits(sinkLevel, infoLevel) == levels[sinkLevel] >= levels[infoLevel]

\* Accepts with each handler taking the infos of both kinds of fault
AcceptsAnyFault(s, info) ==
    CASE s \in {"exceptions", "rejections"} -> info.kind # "call"
      [] OTHER -> /\ info.kind = "call"
                  /\ LevelAdmits(EffectiveLevel(s), info.level)

\* whether transport s logs info: the ordinary transports skip the infos of
\* faults and test the level; a handler logs the infos of its fault, untested
Accepts(s, info) ==
    CASE s = "exceptions" -> info.kind = "exception"
      [] s = "rejections" -> info.kind = "rejection"
      [] OTHER -> /\ info.kind = "call"
                  /\ LevelAdmits(EffectiveLevel(s), info.level)

\* a file opened on `day`; seq is the counter appended to the name of a file
\* opened because the one before was above maxSize
NewArtifact(day, seq) ==
    [date |-> day, seq |-> seq, size |-> 0,
     written |-> <<>>, pending |-> <<>>, removed |-> FALSE]

Active(arts) == arts[Len(arts)]

\* ShouldRotate without the size test
ShouldRotateByDateOnly(a, day) == day # a.date

\* ShouldRotate without the date test
ShouldRotateBySizeOnly(a, day) == a.size > MaxSize

\* the test made before every write of a rotating file
ShouldRotate(a, day) == day # a.date \/ a.size > MaxSize

\* the file opened by a rotation
Rotate(arts, day) ==
    LET a == Active(arts)
    IN  Append(arts, NewArtifact(day, IF a.size > MaxSize THEN a.seq + 1 ELSE 0))

\* maxFiles in days: a file is kept while it was opened less than `keep` days
\* ago; one opened exactly `keep` days ago is kept or not with the time of day
Expired(a, day, keep, keepBoundary) ==
    \/ day - a.date > keep
    \/ day - a.date = keep /\ ~keepBoundary

\* the sweep run when a file is opened
Sweep(arts, day, keep, keepBoundary) ==
    [i \in DOMAIN arts |->
        IF Expired(arts[i], day, keep, keepBoundary)
        THEN [arts[i] EXCEPT !.removed = TRUE]
        ELSE arts[i]]

\* the record is queued on the active file's stream and counted in its size
Enqueue(arts, id, size) ==
    [arts EXCEPT ![Len(arts)].pending = Append(@, id),
                 ![Len(arts)].size = @ + size]

\* DailyRotateFile.log: rotate if needed, sweep, then queue the record
RotatingLog(s, arts, id, size, day, keepBoundary) ==
    IF ShouldRotate(Active(arts), day)
    THEN Enqueue(Sweep(Rotate(arts, day), day, MaxFiles(s), keepBoundary), id, size)
    ELSE Enqueue(arts, id, size)

\* File.log of a handler: one file, no date pattern, no maxsize
FileLog(s, arts, id, size, day, keepBoundary) ==
    IF s \in Handlers
    THEN Enqueue(arts, id, size)
    ELSE RotatingLog(s, arts, id, size, day, keepBoundary)

\* FlushOne landing the newest queued record instead of the oldest
FlushNewest(a) ==
    [a EXCEPT !.written = Append(@, a.pending[Len(a.pending)]),
              !.pending = SubSeq(@, 1, Len(@) - 1)]

\* the stream of a file lands its oldest queued record
FlushOne(a) ==
    [a EXCEPT !.written = Append(@, Head(a.pending)), !.pending = Tail(@)]

----------------------------------------------------------------------------
(* Formats.  An info under formatting: the keys of the object, the pattern *)
(* and day of its timestamp, whether the message is aligned and whether    *)
(* level and message are colorized, and `text`, the rendering set by the   *)
(* last finalizing format (json, prettyPrint, printf).                     *)

NoText == [shape |-> "none"]

\* the info object of a call or a fault, with defaultMeta { service }
InfoObject(info) ==
    [level |-> info.level,
     keys |-> {"level", "message", "service"}
                 \cup (IF info.kind = "call" THEN {} ELSE {"stack", info.kind}),
     isError |-> info.stack,
     stamp |-> "none", stampDay |-> -1,
     aligned |-> FALSE, colorized |-> FALSE,
     text |-> NoText]

\* format.timestamp({ format }): sets info.timestamp to the current time
FormatTimestamp(pattern, day, f) ==
    [f EXCEPT !.keys = @ \cup {"timestamp"}, !.stamp = pattern, !.stampDay = day]

\* format.errors({ stack: true }): copies the stack of an error into the info
FormatErrors(f) ==
    IF f.isError THEN [f EXCEPT !.keys = @ \cup {"stack"}] ELSE f

\* align(): prefixes the message with a tab
FormatAlign(f) == [f EXCEPT !.aligned = TRUE]

\* the text of a format that serializes the whole object
ObjectText(shape, f) ==
    [shape |-> shape, keys |-> f.keys, level |-> f.level,
     stamp |-> f.stamp, stampDay |-> f.stampDay,
     aligned |-> f.aligned, colorized |-> f.colorized]

\* format.json(): one JSON object with every key of the info
FormatJson(f) == [f EXCEPT !.text = ObjectText("json", f)]

\* format.prettyPrint(): the object as util.inspect prints it
FormatPrettyPrint(f) == [f EXCEPT !.text = ObjectText("pretty", f)]

\* colorize({ all: true }): colors the level and the message
FormatColorize(f) == [f EXCEPT !.colorized = TRUE]

\* format.printf(({ level, message, timestamp }) =>
\*     `${timestamp} [${level}]: ${message}`)
FormatPrintf(f) ==
    [f EXCEPT !.text =
        [shape |-> "line", keys |-> {"timestamp", "level", "message"},
         level |-> f.level, stamp |-> f.stamp, stampDay |-> f.stampDay,
         aligned |-> f.aligned, colorized |-> f.colorized]]

LoggerStamp == "YYYY-MM-DD HH:mm:ss"
\* format.timestamp() without a pattern: an ISO date
DefaultStamp == "ISO"

\* LoggerFormat ending with json() in both environments
LoggerFormatAlwaysJson(day, f) ==
    FormatJson(FormatAlign(FormatErrors(FormatTimestamp(LoggerStamp, day, f))))

\* the format of createLogger: timestamp, errors, align, then json in
\* production and prettyPrint otherwise
LoggerFormat(day, f) ==
    LET g == FormatAlign(FormatErrors(FormatTimestamp(LoggerStamp, day, f)))
    IN  IF env = "production" THEN FormatJson(g) ELSE FormatPrettyPrint(g)

\* the format of the Console transport: timestamp and json in production,
\* colorize and printf otherwise
ConsoleFormat(day, f) ==
    IF env = "production"
    THEN FormatJson(FormatTimestamp(DefaultStamp, day, f))
    ELSE FormatPrintf(FormatColorize(f))

\* what transport s writes for info: only the console has a format of its own
Render(s, info, day) ==
    LET f == LoggerFormat(day, InfoObject(info))
    IN  IF s = "console" THEN ConsoleFormat(day, f).text ELSE f.text

----------------------------------------------------------------------------
(* The logger.                                                             *)

Init ==
    /\ env \in Environments
    /\ today = 0
    /\ emitted = <<>>
    /\ console = <<>>
    /\ files = [s \in FileSinks |-> <<NewArtifact(0, 0)>>]
    /\ rendered = [s \in OrdinarySinks \cup Handlers |-> <<>>]

\* Logger.write: the info is piped to every transport
Dispatch(info) ==
    LET id == Len(emitted) + 1
    IN  \E keepBoundary \in BOOLEAN :
          /\ emitted' = Append(emitted, info)
          /\ console' = IF Accepts("console", info)
                        THEN Append(console, id) ELSE console
          /\ files' = [s \in FileSinks |->
                         IF Accepts(s, info)
                         THEN FileLog(s, files[s], id, info.size, today, keepBoundary)
                         ELSE files[s]]
          /\ rendered' = [s \in OrdinarySinks \cup Handlers |->
                            IF Accepts(s, info)
                            THEN Append(rendered[s], Render(s, info, today))
                            ELSE rendered[s]]
          /\ UNCHANGED <<env, today>>

\* log.error / warn / info / http / verbose / debug
Log(level, size, cap) ==
    /\ Len(emitted) < cap
    /\ Dispatch([level |-> level, size |-> size, day |-> today,
                 kind |-> "call", stack |-> FALSE])

\* an uncaught exception or an unhandled rejection: logged at level error,
\* with the message and the stack of the error
Fault(kind, cap) ==
    /\ Len(emitted) < cap
    /\ Dispatch([level |-> "error", size |-> 1, day |-> today,
                 kind |-> kind, stack |-> TRUE])

\* a queued write of file i of transport s completes
Flush(s, i) ==
    /\ i \in DOMAIN files[s]
    /\ files[s][i].pending # <<>>
    /\ ~files[s][i].removed
    /\ files' = [files EXCEPT ![s][i] = FlushOne(@)]
    /\ UNCHANGED <<env, today, emitted, console, rendered>>

\* midnight passes (explored while calls remain to be made)
NextDay(lastDay, cap) ==
    /\ today < lastDay
    /\ Len(emitted) < cap
    /\ today' = today + 1
    /\ UNCHANGED <<env, emitted, console, files, rendered>>

Next ==
    \/ \E l \in ProducerLevels : Log(l, 1, MaxEvents)
    \/ \E k \in {"exception", "rejection"} : Fault(k, MaxEvents)
    \/ \E s \in FileSinks : \E i \in DOMAIN files[s] : Flush(s, i)

Spec == Init /\ [][Next]_vars

\* the calls of the "Test of logs" block of server.ts, in any order
ScenarioLevels == {"info", "warn", "error", "debug"}

NextScenario ==
    \/ \E l \in ScenarioLevels : Log(l, 1, MaxScenarioCalls)
    \/ \E s \in RotatingSinks : \E i \in DOMAIN files[s] : Flush(s, i)

SpecScenario == Init /\ [][NextScenario]_vars

\* info calls of several sizes over a few days: the application and debugs
\* files take them, the warns and errors files do not
RotationLevels == {"info"}

NextRotation ==
    \/ \E l \in RotationLevels : \E z \in RecordSizes : Log(l, z, MaxRotEvents)
    \/ NextDay(MaxRotDay, MaxRotEvents)
    \/ \E s \in RotatingSinks : \E i \in DOMAIN files[s] : Flush(s, i)

SpecRotation == Init /\ [][NextRotation]_vars

\* a few calls over more days than the longest retention window
RetentionLevels == {"error", "info"}
LastRetentionDay == MaxFilesErrors + DaysPastWindow

NextRetention ==
    \/ \E l \in RetentionLevels : Log(l, 1, MaxRetEvents)
    \/ NextDay(LastRetentionDay, MaxRetEvents)
    \/ \E s \in RotatingSinks : \E i \in DOMAIN files[s] : Flush(s, i)

SpecRetention == Init /\ [][NextRetention]_vars

----------------------------------------------------------------------------
(* What a transport holds.                                                 *)

Range(seq) == {seq[i] : i \in DOMAIN seq}

\* the records of one file: those landed, then those still queued
Line(a) == a.written \o a.pending

RECURSIVE Joined(_)
\* the records of the files of one transport, oldest file first
Joined(arts) ==
    IF arts = <<>> THEN <<>>
    ELSE Joined(SubSeq(arts, 1, Len(arts) - 1)) \o Line(arts[Len(arts)])

RECURSIVE Landed(_)
\* the records landed in the files of one transport, oldest file first
Landed(arts) ==
    IF arts = <<>> THEN <<>>
    ELSE Landed(SubSeq(arts, 1, Len(arts) - 1)) \o arts[Len(arts)].written

\* every record transport s has taken, in the order of its destination
SinkLine(s) == IF s = "console" THEN console ELSE Joined(files[s])

Held(s) == Range(SinkLine(s))

IsIncreasing(seq) == \A i \in 1..(Len(seq) - 1) : seq[i] < seq[i + 1]

RECURSIVE Bytes(_)
\* the size of a sequence of records
Bytes(ids) ==
    IF ids = <<>> THEN 0 ELSE emitted[Head(ids)].size + Bytes(Tail(ids))

Calls == {i \in DOMAIN emitted : emitted[i].kind = "call"}

\* the order of the five severities as the specification numbers them
SeverityPriority == [error |-> 0, warn |-> 1, info |-> 2, http |-> 3, debug |-> 4]
Severities == DOMAIN SeverityPriority
SeverityCalls == {i \in Calls : emitted[i].level \in Severities}

----------------------------------------------------------------------------
(* Claims.                                                                 *)

\* C1: for the order error(0) < warn(1) < info(2) < http(3) < debug(4), a
\* sink holds a call of one of the five levels iff the priority of the call's
\* level is at most the priority of the sink's minimum level.
C1_SinkAdmitsByPriority ==
    \A s \in OrdinarySinks : \A i \in SeverityCalls :
        (i \in Held(s)) <=>
            (SeverityPriority[emitted[i].level] <= SeverityPriority[TransportLevel(s)])

\* the sink of minimum level warn has taken an error and a warn call and has
\* rejected a call of a lower priority
C1_WarnSinkAdmitsErrorAndWarn ==
    \E i, j, k \in SeverityCalls :
        /\ emitted[i].level = "error" /\ i \in Held("warns")
        /\ emitted[j].level = "warn" /\ j \in Held("warns")
        /\ emitted[k].level \in {"info", "http", "debug"} /\ k \notin Held("warns")

\* C2: in production no sink, the debugs file included, holds a call of a
\* priority below info; out of production every call of the five levels
\* passes the logger's floor and reaches the console.
C2_FloorBeforeSinks ==
    /\ env = "production" =>
            \A s \in OrdinarySinks \cup Handlers : \A i \in SeverityCalls :
                i \in Held(s) =>
                    SeverityPriority[emitted[i].level] <= SeverityPriority["info"]
    /\ env # "production" => \A i \in SeverityCalls : i \in Held("console")

\* the levels the four calls of the test block reach in each file
ScenarioTable ==
    [application |-> {"info", "warn", "error"},
     warns |-> {"warn", "error"},
     errors |-> {"error"},
     debugs |-> {"info", "warn", "error", "debug"}]

\* C3: out of production, every info / warn / error / debug call is in the
\* console, in call order; each is in exactly the files whose level admits it
\* (application: info, warn, error; warns: warn, error; errors: error; debugs:
\* all four); and no sink holds anything but the calls made, each once.
C3_ScenarioFanOut ==
    env # "production" =>
        /\ console = [i \in 1..Len(emitted) |-> i]
        /\ \A s \in RotatingSinks : \A i \in Calls :
               emitted[i].level \in ScenarioLevels =>
                   ((i \in Held(s)) <=> (emitted[i].level \in ScenarioTable[s]))
        /\ \A s \in OrdinarySinks :
               /\ Held(s) \subseteq Calls
               /\ Cardinality(Held(s)) = Len(SinkLine(s))

\* the four calls have been made out of production and every write has landed
C3_AllFourLanded ==
    /\ env # "production"
    /\ {emitted[i].level : i \in DOMAIN emitted} = ScenarioLevels
    /\ Len(console) = 4
    /\ \A s \in RotatingSinks :
           /\ Active(files[s]).pending = <<>>
           /\ Len(Active(files[s]).written) = Cardinality(ScenarioTable[s])

\* C4: whatever the environment, every uncaught exception is in exceptions.log
\* and not in rejections.log, every unhandled rejection is in rejections.log
\* and not in exceptions.log, each with its stack, and neither file holds
\* anything else.
C4_FaultsCaptured ==
    /\ \A i \in DOMAIN emitted :
           /\ emitted[i].kind = "exception" =>
                  i \in Held("exceptions") /\ i \notin Held("rejections")
           /\ emitted[i].kind = "rejection" =>
                  i \in Held("rejections") /\ i \notin Held("exceptions")
    /\ \A i \in Held("exceptions") :
           emitted[i].kind = "exception" /\ emitted[i].stack
    /\ \A i \in Held("rejections") :
           emitted[i].kind = "rejection" /\ emitted[i].stack

\* in production an exception and a rejection have both landed in their files
C4_BothFaultsLandedInProduction ==
    /\ env = "production"
    /\ \E i \in Range(Active(files["exceptions"]).written) :
           emitted[i].kind = "exception"
    /\ \E i \in Range(Active(files["rejections"]).written) :
           emitted[i].kind = "rejection"

\* C6: the records landed in the files of one sink, oldest file first, are in
\* dispatch order, a record never lands before one queued ahead of it on the
\* same file, and the console prints in dispatch order; this holds across
\* rotations and for every interleaving of the write completions.
C6_FifoPerSink ==
    /\ IsIncreasing(console)
    /\ \A s \in FileSinks :
           /\ IsIncreasing(Landed(files[s]))
           /\ IsIncreasing(SinkLine(s))
           /\ \A k \in DOMAIN files[s] : IsIncreasing(Line(files[s][k]))

\* a sink has rotated, records have landed in its new file while a record of
\* its old file is still queued, and another sink is further ahead
C6_LandedAcrossRotation ==
    \E s, t \in RotatingSinks :
        /\ Len(files[s]) >= 2
        /\ files[s][1].written # <<>>
        /\ files[s][1].pending # <<>>
        /\ files[s][2].written # <<>>
        /\ Len(Landed(files[t])) > Len(Landed(files[s]))

\* the files of sink s closed because of their size: the next file of the
\* sink was opened on the same day
ClosedBySize(s) ==
    {k \in 1..(Len(files[s]) - 1) : files[s][k + 1].date = files[s][k].date}

\* sink s holds each call its level admits once, in dispatch order
NothingLostOrDuplicated(s) ==
    /\ IsIncreasing(SinkLine(s))
    /\ Held(s) = {i \in SeverityCalls :
                     SeverityPriority[emitted[i].level]
                         <= SeverityPriority[TransportLevel(s)]}

C8_RecordsInFileOfTheirDay ==
    \A s \in RotatingSinks : \A k \in DOMAIN files[s] :
        /\ \A i \in Range(Line(files[s][k])) : emitted[i].day = files[s][k].date
        /\ k > 1 => files[s][k - 1].date <= files[s][k].date

\* a sink whose first file holds a small record of day 0 has opened a second
\* file for day 1, and the record of day 1 has landed there
C8_NewFileOnNewDay ==
    \E s \in RotatingSinks :
        /\ Len(files[s]) = 2
        /\ files[s][1].date = 0 /\ files[s][2].date = 1
        /\ Line(files[s][1]) # <<>> /\ Bytes(Line(files[s][1])) = 1
        /\ files[s][2].written # <<>>

\* the retention windows the specification gives, in days
RetentionWindow == [application |-> 14, warns |-> 21, debugs |-> 21, errors |-> 30]

\* C9: relative to the day of a family's last rotation check (the day of its
\* active file), every file of the family older than the family's own window
\* is removed and no file younger than the window is; the fault files are
\* never removed.
C9_RetentionPerFamily ==
    /\ \A s \in RotatingSinks : \A k \in DOMAIN files[s] :
           LET age == Active(files[s]).date - files[s][k].date
           IN  /\ age > RetentionWindow[s] => files[s][k].removed
               /\ age < RetentionWindow[s] => ~files[s][k].removed
    /\ \A s \in Handlers : \A k \in DOMAIN files[s] : ~files[s][k].removed

\* an info call on day 15 to 20 has removed the first application file and
\* kept the first debugs file, and the errors and warns files are untouched
C9_ApplicationSweptDebugsKept ==
    /\ Len(files["application"]) = 2 /\ files["application"][1].removed
    /\ Len(files["debugs"]) = 2 /\ ~files["debugs"][1].removed
    /\ Active(files["debugs"]).date > MaxFilesApplication
    /\ Len(files["errors"]) = 1 /\ Len(files["warns"]) = 1

\* C10 as stated: the errors file holds only error calls and the warns file
\* only warn calls; the debugs file holds debug and above, the application
\* file info and above.
C10_OneLevelPerFile ==
    /\ \A i \in Held("errors") : emitted[i].level = "error"
    /\ \A i \in Held("warns") : emitted[i].level = "warn"
    /\ \A i \in Held("application") : levels[emitted[i].level] <= levels["info"]
    /\ \A i \in Held("debugs") : levels[emitted[i].level] <= levels["debug"]

\* C10 as amended: the errors file holds only error calls; the warns file
\* holds the warn calls and the error calls, all of them; the application file
\* holds info and above, the debugs file debug and above.
C10_FilesHoldLevelAndAbove ==
    /\ \A i \in Held("errors") : emitted[i].level = "error"
    /\ Held("warns") = {i \in Calls : emitted[i].level \in {"warn", "error"}}
    /\ \A i \in Held("application") : emitted[i].level \in {"info", "warn", "error"}
    /\ \A i \in Held("debugs") : levels[emitted[i].level] <= levels["debug"]
    /\ \A i \in Calls : emitted[i].level = "error" => i \in Held("errors")

\* an error call has landed in the warns file
C10_ErrorLandedInWarnsFile ==
    \E i \in Range(Active(files["warns"]).written) :
        emitted[i].kind = "call" /\ emitted[i].level = "error"

\* the keys the specification names for the JSON rendering
NamedKeys == {"timestamp", "level", "message", "service"}

AllSinks == OrdinarySinks \cup Handlers

====
